---- MODULE Spec2Model ----
(***************************************************************************)
(* The client-side live-data layer of chickenroad-tracker:                 *)
(*   - the useWebSocket hook (connection manager, reconnect/backoff),      *)
(*   - the LiveFeed component (displayed feed, demo generator, pause).     *)
(* One action per handler; a handler that sets hook state also runs the    *)
(* React effects that the resulting render triggers.                       *)
(***************************************************************************)
EXTENDS Integers, Sequences, FiniteSets, TLC

\* ---------------------------------------------------------------- constants
maxReconnectAttempts == 5
liveFeedLimit == 20
MockSeedCount == 15
BaseDelayMs == 1000
MaxDelayMs == 30000
maxLanes == 5
\* Math.random() > 0.7 and the multiplier table, in tenths.
HitThresholdTenths == 7
MultiplierTableTenths == <<12, 15, 20, 35, 80>>

\* ------------------------------------------------------------------- bounds
\* Spec (the connection manager): sockets created in all, and connect() calls
\* the consumer makes after the mount-time one.
\* FeedSpec (the two producers of the feed under reconnects): sockets created
\* in all, and live events the server sends.
\* BufferSpec (the feed buffer over one connection's lifetime): live events
\* the server sends.
\* MessageSpec (every kind of inbound message, and sendMessage, under
\* reconnects): sockets created in all, events held by the buffer, and frames
\* sent.
MaxChannels == 6
MaxConnectCalls == 1
FeedMaxChannels == 2
FeedMaxEvents == 2
BufferMaxEvents == 22
MsgMaxChannels == 3
MsgMaxEvents == 2
MsgMaxFrames == 2
\* StatsSpec (the useStats hook): fetches issued in all, poll ticks, and
\* refetch() calls made by the consumer after the mount-time one.
StatsMaxRequests == 7
StatsMaxTicks == 2
StatsMaxRefetches == 1
\* GeneratorSpec (generateMockCrossing over all its random draws): calls made.
SimMaxGames == 3
GenMaxEvents == 2

\* --------------------------------------------------------------- vocabulary
NoError == "null"
MaxAttemptsError == "Max reconnection attempts reached. Please refresh the page."
ConnectionError == "Connection error occurred"
Null == 0

\* A CrossingEvent as the feed sees it: where it came from and, for a live
\* event, the server's sequence number (its identity).
\* `via` is the type of the message that delivered it.
LiveEvent(n, via) == [src |-> "live", id |-> n, via |-> via]
MockEvent == [src |-> "mock", id |-> 0, via |-> "generator"]

\* What [data.payload, ...prev] puts in front when the message has no payload.
Undefined == [src |-> "undefined", id |-> 0, via |-> "crossing"]

\* An inbound message as onmessage sees it: data.type ("unparseable" when
\* JSON.parse throws), the socket that delivered it, and data.payload as a
\* list of events (hasPayload is FALSE when data.payload is undefined).
Message(type, c, payload, hasPayload) ==
  [type |-> type, socket |-> c, payload |-> payload, hasPayload |-> hasPayload]
NoMessage == Message("none", 0, <<>>, FALSE)

\* useStats: the message of the Error a failed fetch throws.
FetchError == "HTTP error! status: 500"

\* useStats: one call of fetchStats, fetchLaneStats or fetchHistory: the
\* endpoint, the refetch() or poll tick that issued it (its round), whether a
\* refetch() awaits it, and how it settled.  The data a request returns is
\* identified by the request's index.
Request(endpoint, round, awaited) ==
  [endpoint |-> endpoint, round |-> round, awaited |-> awaited,
   state |-> "pending"]

\* A frame handed to WebSocket.send.
Frame(c, type) == [socket |-> c, type |-> type]

VARIABLES
  crossings,             \* useWebSocket: useState([])
  connected,             \* useWebSocket: useState(false)
  error,                 \* useWebSocket: useState(null)
  wsRef,                 \* useWebSocket: wsRef.current (Null or a socket id)
  reconnectTimeoutRef,   \* useWebSocket: reconnectTimeoutRef.current (Null or a timer id)
  reconnectAttemptsRef,  \* useWebSocket: reconnectAttemptsRef.current
  sockets,               \* every WebSocket created so far: its readyState
  timers,                \* every setTimeout issued so far: delay and state
                         \* (and, for the record, the readyState the socket
                         \* had when the close event that issued it arrived)
  serverSeq,             \* number of live events the server has sent
  \* history variables (read by no action's guard or effect on the program state)
  openMark,              \* number of timers issued when onopen last ran
  sinceOpen,             \* "never": onopen never ran; else whether a close
                         \* event was handled since it last ran ("none"/"some")
  disconnectedFrom,      \* status in which disconnect() was called, until the
                         \* consumer's next connect() ("none" before/after)
  received,              \* live events applied since the buffer was last
                         \* replaced (history, clear), newest first, untruncated
  consumerConnects,      \* connect() calls made by the consumer since mount
  feed,                  \* LiveFeed: useState([]) (the displayed crossings)
  isPaused,              \* LiveFeed: useState(false)
  sent,                  \* every frame handed to WebSocket.send so far: the
                         \* socket it went out on and what it was
  handled,               \* history variable: the inbound message, or the
                         \* sendMessage or clearCrossings call, that the
                         \* last step handled
  stats,                 \* useStats: useState(null) (Null or a snapshot)
  laneStats,             \* useStats: useState(null)
  history,               \* useStats: useState([]) (Null stands for [])
  loading,               \* useStats: useState(true)
  statsError,            \* useStats: useState(null) (its `error`)
  requests,              \* useStats: every fetch issued so far
  interval,              \* useStats: the setInterval of the auto-refresh effect
  mounted,               \* the view that owns useStats is mounted
  rounds,                \* refetch() calls and poll ticks so far
  ticks,                 \* poll ticks so far
  lastSettled,           \* history variable: the two fetches that settled
                         \* last (indices into requests, Null if none)
  generated,             \* history variable: what the calls of
                         \* generateMockCrossing returned so far
  lanes,                 \* RoadCrossingSimulator: useState(5)
  currentLane,           \* RoadCrossingSimulator: useState(0)
  gameState,             \* RoadCrossingSimulator: useState('idle')
  simStats,              \* RoadCrossingSimulator: its `stats`, useState({games:
                         \* 0, wins: 0, maxLane: 0, profit: 0}); profit, a
                         \* floating-point sum that no guard reads, is left
                         \* out, as are betAmount and carPositions
  simCalled              \* history variable: the simulator handler that the
                         \* last step called

vars == <<crossings, connected, error, wsRef, reconnectTimeoutRef,
          reconnectAttemptsRef, sockets, timers, serverSeq, openMark, sinceOpen,
          disconnectedFrom, received, consumerConnects, feed, isPaused,
          sent, handled, stats, laneStats, history, loading, statsError,
          requests, interval, mounted, rounds, ticks, lastSettled,
          generated, lanes, currentLane, gameState, simStats, simCalled>>

wsVars == <<crossings, connected, error, wsRef, reconnectTimeoutRef,
            reconnectAttemptsRef, sockets, timers, serverSeq, openMark,
            sinceOpen, disconnectedFrom, received, consumerConnects, feed,
            isPaused, sent, handled, generated>>
statsVars == <<stats, laneStats, history, loading, statsError, requests,
               interval, mounted, rounds, ticks, lastSettled>>

simState == <<lanes, currentLane, gameState, simStats>>
simVars == <<simState, simCalled>>

hookRefs == <<wsRef, reconnectTimeoutRef, reconnectAttemptsRef>>
connVars == <<connected, error, hookRefs, sockets, timers>>
connHistory == <<openMark, sinceOpen, disconnectedFrom, consumerConnects>>

\* ------------------------------------------------------------------ helpers
Min(a, b) == IF a < b THEN a ELSE b

RECURSIVE Pow2(_)
Pow2(n) == IF n = 0 THEN 1 ELSE 2 * Pow2(n - 1)

\* Mutation of Slice: the last n elements are kept.
SliceLast(s, n) == SubSeq(s, Len(s) - Min(n, Len(s)) + 1, Len(s))

\* Mutation of Slice: nothing is cut off.
SliceNothing(s, n) == s

\* Array.prototype.slice(0, n)
Slice(s, n) == SubSeq(s, 1, Min(n, Len(s)))

\* Mutation of Cons: the new element goes to the back.
ConsAtBack(e, s) == s \o <<e>>

\* [e, ...prev]
Cons(e, s) == <<e>> \o s

\* Math.min(1000 * Math.pow(2, attempts), 30000)
ReconnectDelay(attempts) == Min(BaseDelayMs * Pow2(attempts), MaxDelayMs)

\* Mutation of generateMockCrossing: a hit keeps the table's multiplier.
generateMockCrossingKeepsMultiplier(lanesCrossed, random) ==
  LET wasHit == lanesCrossed < 5 /\ random > HitThresholdTenths
      multiplier == IF lanesCrossed = 0 THEN 0
                    ELSE MultiplierTableTenths[lanesCrossed]
  IN  [lanesCrossed |-> lanesCrossed,
       outcome |-> IF wasHit THEN "hit" ELSE "crossed",
       multiplier |-> multiplier]

\* generateMockCrossing, given its two random draws: lanesCrossed is
\* Math.floor(Math.random() * 6) and random is the second Math.random(), in
\* tenths.  The multiplier is in tenths (id, timestamp and betAmount are left
\* out).
generateMockCrossing(lanesCrossed, random) ==
  LET wasHit == lanesCrossed < 5 /\ random > HitThresholdTenths
      multiplier == IF lanesCrossed = 0 THEN 0
                    ELSE MultiplierTableTenths[lanesCrossed]
  IN  [lanesCrossed |-> lanesCrossed,
       outcome |-> IF wasHit THEN "hit" ELSE "crossed",
       multiplier |-> IF wasHit THEN 0 ELSE multiplier]

\* The values the two draws can take.
LaneDraws == 0..5
RandomDraws == 0..9

\* Array.from({ length: 15 }, generateMockCrossing), sorted by timestamp
InitialMockData == [i \in 1..MockSeedCount |-> MockEvent]

\* LiveFeed seeding effect: runs after every render in which the crossings
\* prop has a new identity.
SeedFeed(externalCrossings) ==
  IF Len(externalCrossings) = 0 THEN InitialMockData ELSE externalCrossings

\* setCrossings(next) followed by the render and the LiveFeed seeding effect.
SetCrossings(next) ==
  /\ crossings' = next
  /\ feed' = SeedFeed(next)

\* Mutation of GeneratorArmed: the pause is not looked at.
GeneratorArmedWhilePaused == ~connected

\* The generator effect arms its interval only when this holds.
GeneratorArmed == ~connected /\ ~isPaused

\* ws.close(): CONNECTING and OPEN sockets start closing; others are untouched.
CloseSocket(rs) == IF rs \in {"CONNECTING", "OPEN"} THEN "CLOSING" ELSE rs

\* clearTimeout(id): a pending timer is cancelled; anything else is a no-op.
ClearTimer(ts, id) ==
  IF id /= Null /\ ts[id].state = "pending"
  THEN [ts EXCEPT ![id].state = "cleared"]
  ELSE ts

\* ------------------------------------------------------------------ initial
\* The state after HomePage has mounted: LiveFeed's effects have run (seeded
\* with mock data, crossings being empty) and useWebSocket's effect has
\* called connect() once.
Init ==
  /\ crossings = <<>>
  /\ connected = FALSE
  /\ error = NoError
  /\ wsRef = 1
  /\ reconnectTimeoutRef = Null
  /\ reconnectAttemptsRef = 0
  /\ sockets = <<"CONNECTING">>
  /\ timers = <<>>
  /\ serverSeq = 0
  /\ openMark = 0
  /\ sinceOpen = "never"
  /\ disconnectedFrom = "none"
  /\ received = <<>>
  /\ consumerConnects = 0
  /\ feed = InitialMockData
  /\ isPaused = FALSE
  /\ sent = <<>>
  /\ handled = NoMessage
  /\ stats = Null
  /\ laneStats = Null
  /\ history = Null
  /\ loading = TRUE
  /\ statsError = NoError
  /\ requests = <<Request("stats", 1, TRUE), Request("laneStats", 1, TRUE),
                  Request("history", 1, TRUE)>>
  /\ interval = "active"
  /\ mounted = TRUE
  /\ rounds = 1
  /\ ticks = 0
  /\ lastSettled = <<Null, Null>>
  /\ generated = <<>>
  /\ lanes = 5
  /\ currentLane = 0
  /\ gameState = "idle"
  /\ simStats = [games |-> 0, wins |-> 0, maxLane |-> 0]
  /\ simCalled = "none"

\* ------------------------------------------------------------------ connect
\* connect() with the attempt counter at `attempts`: refuses at the ceiling,
\* otherwise creates a socket and makes it the current one.
ConnectWith(attempts) ==
  IF attempts >= maxReconnectAttempts
  THEN /\ error' = MaxAttemptsError
       /\ UNCHANGED <<sockets, wsRef>>
  ELSE /\ sockets' = Append(sockets, "CONNECTING")
       /\ wsRef' = Len(sockets) + 1
       /\ UNCHANGED error

\* connect() called by the consumer (or by the mount effect re-running).
Connect ==
  /\ ConnectWith(reconnectAttemptsRef)
  /\ consumerConnects' = consumerConnects + 1
  /\ disconnectedFrom' = "none"
  /\ UNCHANGED <<crossings, connected, reconnectTimeoutRef, reconnectAttemptsRef,
                 timers, serverSeq, openMark, sinceOpen, received, feed, isPaused>>
  /\ handled' = NoMessage
  /\ UNCHANGED sent
  /\ UNCHANGED <<statsVars, generated, simVars>>

\* The status the spec's state machine is in, read off the hook's state.
Status ==
  IF connected THEN "connected"
  ELSE IF wsRef /= Null /\ sockets[wsRef] = "CONNECTING" THEN "connecting"
  ELSE "disconnected"

\* disconnect() called by the consumer (or by the effect cleanup).
Disconnect ==
  /\ timers' = ClearTimer(timers, reconnectTimeoutRef)
  /\ IF wsRef /= Null
     THEN /\ sockets' = [sockets EXCEPT ![wsRef] = CloseSocket(@)]
          /\ wsRef' = Null
     ELSE UNCHANGED <<sockets, wsRef>>
  /\ connected' = FALSE
  /\ disconnectedFrom' = IF disconnectedFrom = "none" THEN Status ELSE disconnectedFrom
  /\ UNCHANGED <<crossings, error, reconnectTimeoutRef, reconnectAttemptsRef,
                 serverSeq, openMark, sinceOpen, received, consumerConnects,
                 feed, isPaused>>
  /\ handled' = NoMessage
  /\ UNCHANGED sent
  /\ UNCHANGED <<statsVars, generated, simVars>>

\* ws.onopen of socket c.
OnOpen(c) ==
  /\ sockets[c] = "CONNECTING"
  /\ sockets' = [sockets EXCEPT ![c] = "OPEN"]
  /\ connected' = TRUE
  /\ error' = NoError
  /\ reconnectAttemptsRef' = 0
  /\ openMark' = Len(timers)
  /\ sinceOpen' = "none"
  /\ UNCHANGED <<crossings, wsRef, reconnectTimeoutRef, timers, serverSeq,
                 disconnectedFrom, received, consumerConnects, feed, isPaused>>
  /\ handled' = NoMessage
  /\ UNCHANGED sent
  /\ UNCHANGED <<statsVars, generated, simVars>>

\* Mutation of OnError: the error event also forces the status down.
OnErrorForcesDisconnect(c) ==
  /\ sockets[c] \in {"CONNECTING", "OPEN", "CLOSING"}
  /\ error' = ConnectionError
  /\ connected' = FALSE
  /\ handled' = NoMessage
  /\ UNCHANGED <<crossings, hookRefs, sockets, timers, serverSeq,
                 connHistory, received, feed, isPaused, sent>>
  /\ UNCHANGED <<statsVars, generated, simVars>>

\* ws.onerror of socket c: the transport reports an error; the close event
\* follows separately.
OnError(c) ==
  /\ sockets[c] \in {"CONNECTING", "OPEN", "CLOSING"}
  /\ error' = ConnectionError
  /\ UNCHANGED <<crossings, connected, hookRefs, sockets, timers, serverSeq,
                 connHistory, received, feed, isPaused>>
  /\ handled' = NoMessage
  /\ UNCHANGED sent
  /\ UNCHANGED <<statsVars, generated, simVars>>

\* ws.onclose of socket c.
OnClose(c) ==
  /\ sockets[c] \in {"CONNECTING", "OPEN", "CLOSING"}
  /\ sockets' = [sockets EXCEPT ![c] = "CLOSED"]
  /\ connected' = FALSE
  /\ IF reconnectAttemptsRef < maxReconnectAttempts
     THEN /\ timers' = Append(timers, [delay |-> ReconnectDelay(reconnectAttemptsRef),
                                       state |-> "pending",
                                       closed |-> sockets[c]])
          /\ reconnectTimeoutRef' = Len(timers) + 1
     ELSE UNCHANGED <<timers, reconnectTimeoutRef>>
  /\ sinceOpen' = IF sinceOpen = "never" THEN "never" ELSE "some"
  /\ UNCHANGED <<crossings, error, wsRef, reconnectAttemptsRef, serverSeq,
                 openMark, disconnectedFrom, received, consumerConnects,
                 feed, isPaused>>
  /\ handled' = NoMessage
  /\ UNCHANGED sent
  /\ UNCHANGED <<statsVars, generated, simVars>>

\* The reconnect timer callback: count the attempt, then connect().
TimerFire(t) ==
  /\ timers[t].state = "pending"
  /\ timers' = [timers EXCEPT ![t].state = "fired"]
  /\ reconnectAttemptsRef' = reconnectAttemptsRef + 1
  /\ ConnectWith(reconnectAttemptsRef + 1)
  /\ UNCHANGED <<crossings, connected, reconnectTimeoutRef, serverSeq,
                 connHistory, received, feed, isPaused>>
  /\ handled' = NoMessage
  /\ UNCHANGED sent
  /\ UNCHANGED <<statsVars, generated, simVars>>

\* ---------------------------------------------------------------- messages
\* ws.onmessage of socket c, case 'crossing': the server's next event.
OnCrossing(c) ==
  /\ sockets[c] = "OPEN"
  /\ serverSeq' = serverSeq + 1
  /\ SetCrossings(Slice(Cons(LiveEvent(serverSeq + 1, "crossing"), crossings),
                        liveFeedLimit))
  /\ received' = <<LiveEvent(serverSeq + 1, "crossing")>> \o received
  /\ handled' = Message("crossing", c, <<LiveEvent(serverSeq + 1, "crossing")>>, TRUE)
  /\ UNCHANGED <<connVars, connHistory, isPaused, sent>>
  /\ UNCHANGED <<statsVars, generated, simVars>>

\* A history payload of m events, newest first.
HistoryPayload(m) == [i \in 1..m |-> LiveEvent(serverSeq + m + 1 - i, "history")]

\* ws.onmessage of socket c, case 'history' with a payload of m events.
OnHistory(c, m) ==
  /\ sockets[c] = "OPEN"
  /\ serverSeq' = serverSeq + m
  /\ SetCrossings(Slice(HistoryPayload(m), liveFeedLimit))
  /\ received' = HistoryPayload(m)
  /\ handled' = Message("history", c, HistoryPayload(m), TRUE)
  /\ UNCHANGED <<connVars, connHistory, isPaused, sent>>
  /\ UNCHANGED <<statsVars, generated, simVars>>

\* ws.onmessage of socket c, case 'crossing', for a message that carries no
\* payload: data.payload is undefined and is prepended all the same.
OnCrossingNoPayload(c) ==
  /\ sockets[c] = "OPEN"
  /\ SetCrossings(Slice(Cons(Undefined, crossings), liveFeedLimit))
  /\ received' = <<Undefined>> \o received
  /\ handled' = Message("crossing", c, <<>>, FALSE)
  /\ UNCHANGED <<connVars, connHistory, serverSeq, isPaused, sent>>
  /\ UNCHANGED <<statsVars, generated, simVars>>

\* data.type of the inbound messages ("unparseable": JSON.parse throws).
InboundTypes == {"crossing", "history", "stats", "ping", "unknown", "unparseable"}

\* The messages onmessage drops: event.data that JSON.parse rejects (the catch
\* logs it), type 'stats' (break), an unknown type (default: logged), and a
\* 'history' without payload (data.payload.slice throws, the catch logs it).
DroppedTypes == {"unparseable", "stats", "unknown", "history"}

\* ws.onmessage of socket c for a message it drops.
OnDropped(c, type) ==
  /\ sockets[c] = "OPEN"
  /\ handled' = Message(type, c, <<>>, FALSE)
  /\ UNCHANGED <<crossings, feed, connVars, connHistory, serverSeq, received,
                 isPaused, sent>>
  /\ UNCHANGED <<statsVars, generated, simVars>>

\* ws.onmessage of socket c, case 'ping': the reply goes out on the current
\* socket (wsRef.current), and only if that one is open.
OnPing(c) ==
  /\ sockets[c] = "OPEN"
  /\ IF wsRef /= Null /\ sockets[wsRef] = "OPEN"
     THEN sent' = Append(sent, Frame(wsRef, "pong"))
     ELSE UNCHANGED sent
  /\ handled' = Message("ping", c, <<>>, FALSE)
  /\ UNCHANGED <<crossings, feed, connVars, connHistory, serverSeq, received,
                 isPaused>>
  /\ UNCHANGED <<statsVars, generated, simVars>>

\* sendMessage(message) called by the consumer.
SendMessage ==
  /\ IF wsRef /= Null /\ sockets[wsRef] = "OPEN"
     THEN sent' = Append(sent, Frame(wsRef, "message"))
     ELSE UNCHANGED sent
  /\ handled' = Message("send", Null, <<>>, FALSE)
  /\ UNCHANGED <<crossings, feed, connVars, connHistory, serverSeq, received,
                 isPaused>>
  /\ UNCHANGED <<statsVars, generated, simVars>>

\* clearCrossings()
ClearCrossings ==
  /\ SetCrossings(<<>>)
  /\ received' = <<>>
  /\ UNCHANGED <<connVars, connHistory, serverSeq, isPaused>>
  /\ handled' = Message("clear", Null, <<>>, FALSE)
  /\ UNCHANGED sent
  /\ UNCHANGED <<statsVars, generated, simVars>>

\* ------------------------------------------------------------------ LiveFeed
\* One call of generateMockCrossing (by the seeding effect or by a tick of
\* the interval), with the values Math.random() returned.
Generate(lanesCrossed, random) ==
  /\ generated' = Append(generated, generateMockCrossing(lanesCrossed, random))
  /\ UNCHANGED <<crossings, connVars, connHistory, serverSeq, received, feed,
                 isPaused, sent, handled, statsVars, simVars>>

\* One tick of the demo generator's interval.
GeneratorTick ==
  /\ GeneratorArmed
  /\ feed' = Slice(Cons(MockEvent, feed), liveFeedLimit)
  /\ UNCHANGED <<crossings, connVars, connHistory, serverSeq, received, isPaused>>
  /\ handled' = NoMessage
  /\ UNCHANGED sent
  /\ UNCHANGED <<statsVars, generated, simVars>>

\* The pause button.
TogglePause ==
  /\ isPaused' = ~isPaused
  /\ UNCHANGED <<crossings, connVars, connHistory, serverSeq, received, feed>>
  /\ handled' = NoMessage
  /\ UNCHANGED sent
  /\ UNCHANGED <<statsVars, generated, simVars>>

\* ------------------------------------------------------------------ useStats
\* Mutation of Settle: a failure rejects the refetch()'s Promise.all, which
\* then never reaches setLoading(false).
SettleRejecting(i, outcome) ==
  /\ requests[i].state = "pending"
  /\ requests' = [requests EXCEPT ![i].state = outcome]
  /\ loading' =
       IF /\ requests[i].awaited
          /\ \A j \in 1..Len(requests) :
               requests'[j].round = requests[i].round
                 => requests'[j].state = "ok"
       THEN FALSE
       ELSE loading
  /\ lastSettled' = <<lastSettled[2], i>>
  /\ UNCHANGED <<interval, mounted, rounds, ticks, wsVars,
                 simVars>>

\* The request settles; a refetch() whose three fetches have now all settled
\* resumes after its Promise.all and sets loading to false.
Settle(i, outcome) ==
  /\ requests[i].state = "pending"
  /\ requests' = [requests EXCEPT ![i].state = outcome]
  /\ loading' =
       IF /\ requests[i].awaited
          /\ \A j \in 1..Len(requests) :
               (j /= i /\ requests[j].round = requests[i].round)
                 => requests[j].state /= "pending"
       THEN FALSE
       ELSE loading
  /\ lastSettled' = <<lastSettled[2], i>>
  /\ UNCHANGED <<interval, mounted, rounds, ticks, wsVars,
                 simVars>>

\* fetchStats: the response is ok and parses.
FetchStatsOk(i) ==
  /\ requests[i].endpoint = "stats"
  /\ Settle(i, "ok")
  /\ stats' = i
  /\ statsError' = NoError
  /\ UNCHANGED <<laneStats, history>>

\* Mutation of FetchStatsFail: the failure also drops the snapshot.
FetchStatsFailDropsSnapshot(i) ==
  /\ requests[i].endpoint = "stats"
  /\ Settle(i, "failed")
  /\ stats' = Null
  /\ statsError' = FetchError
  /\ UNCHANGED <<laneStats, history>>

\* fetchStats: fetch rejects, the response is not ok, or its body does not
\* parse.
FetchStatsFail(i) ==
  /\ requests[i].endpoint = "stats"
  /\ Settle(i, "failed")
  /\ statsError' = FetchError
  /\ UNCHANGED <<stats, laneStats, history>>

\* fetchLaneStats: the response is ok and parses.
FetchLaneStatsOk(i) ==
  /\ requests[i].endpoint = "laneStats"
  /\ Settle(i, "ok")
  /\ laneStats' = i
  /\ UNCHANGED <<stats, history, statsError>>

\* Mutation of FetchLaneStatsFail: the failure is reported like fetchStats'.
FetchLaneStatsFailSetsError(i) ==
  /\ requests[i].endpoint = "laneStats"
  /\ Settle(i, "failed")
  /\ statsError' = FetchError
  /\ UNCHANGED <<stats, laneStats, history>>

\* fetchLaneStats: the failure is only logged.
FetchLaneStatsFail(i) ==
  /\ requests[i].endpoint = "laneStats"
  /\ Settle(i, "failed")
  /\ UNCHANGED <<stats, laneStats, history, statsError>>

\* fetchHistory: the response is ok and parses.
FetchHistoryOk(i) ==
  /\ requests[i].endpoint = "history"
  /\ Settle(i, "ok")
  /\ history' = i
  /\ UNCHANGED <<stats, laneStats, statsError>>

\* fetchHistory: the failure is only logged.
FetchHistoryFail(i) ==
  /\ requests[i].endpoint = "history"
  /\ Settle(i, "failed")
  /\ UNCHANGED <<stats, laneStats, history, statsError>>

\* refetch() called by the consumer.
Refetch ==
  /\ mounted
  /\ loading' = TRUE
  /\ rounds' = rounds + 1
  /\ requests' = requests \o <<Request("stats", rounds + 1, TRUE),
                                Request("laneStats", rounds + 1, TRUE),
                                Request("history", rounds + 1, TRUE)>>
  /\ UNCHANGED <<stats, laneStats, history, statsError, interval, mounted,
                 ticks, lastSettled, wsVars,
                 simVars>>

\* Mutation of PollTick: only the overall stats are fetched again.
PollTickStatsOnly ==
  /\ interval = "active"
  /\ rounds' = rounds + 1
  /\ ticks' = ticks + 1
  /\ requests' = requests \o <<Request("stats", rounds + 1, FALSE)>>
  /\ UNCHANGED <<stats, laneStats, history, loading, statsError, interval,
                 mounted, lastSettled, wsVars,
                 simVars>>

\* The callback of the auto-refresh interval.
PollTick ==
  /\ interval = "active"
  /\ rounds' = rounds + 1
  /\ ticks' = ticks + 1
  /\ requests' = requests \o <<Request("stats", rounds + 1, FALSE),
                                Request("laneStats", rounds + 1, FALSE)>>
  /\ UNCHANGED <<stats, laneStats, history, loading, statsError, interval,
                 mounted, lastSettled, wsVars,
                 simVars>>

\* The owning view unmounts: the auto-refresh effect's cleanup runs.
StatsUnmount ==
  /\ mounted
  /\ mounted' = FALSE
  /\ interval' = "cleared"
  /\ UNCHANGED <<stats, laneStats, history, loading, statsError, requests,
                 rounds, ticks, lastSettled, wsVars,
                 simVars>>

\* ------------------------------------------------- RoadCrossingSimulator
Max(a, b) == IF a > b THEN a ELSE b

\* The lane counts the select offers.
LaneOptions == {5, 7, 9}

\* The survivalRate local of crossLane, in percent.
crossLaneSurvivalRate ==
  IF currentLane < 3 THEN 80 ELSE IF currentLane < 6 THEN 70 ELSE 60

\* The survivalRate local of the laneData memo, in percent.
laneDataSurvivalRate ==
  IF currentLane <= 3 THEN 80 ELSE IF currentLane <= 6 THEN 70 ELSE 60

\* The laneData memo: one entry per lane, each with the per-lane survival
\* percentage (the cumulative probability, multiplier and profit columns are
\* floating-point products of it and are left out).
laneData ==
  [lane \in 1..lanes |-> [lane |-> lane, laneSurvival |-> laneDataSurvivalRate]]

\* startGame().
StartGame ==
  /\ currentLane' = 0
  /\ gameState' = "playing"
  /\ simCalled' = "startGame"
  /\ UNCHANGED <<lanes, simStats, wsVars, statsVars>>

\* Mutation of CrossLane: without the early return when no round is playing.
CrossLaneUnguarded(random) ==
  /\ IF random * 10 < crossLaneSurvivalRate
       THEN LET newLane == currentLane + 1
            IN /\ currentLane' = newLane
               /\ IF newLane = lanes
                    THEN /\ gameState' = "won"
                         /\ simStats' = [games |-> simStats.games + 1,
                                         wins |-> simStats.wins + 1,
                                         maxLane |-> Max(simStats.maxLane, newLane)]
                    ELSE UNCHANGED <<gameState, simStats>>
       ELSE /\ gameState' = "lost"
            /\ simStats' = [games |-> simStats.games + 1,
                            wins |-> simStats.wins,
                            maxLane |-> Max(simStats.maxLane, currentLane)]
            /\ UNCHANGED currentLane
  /\ simCalled' = "crossLane"
  /\ UNCHANGED <<lanes, wsVars, statsVars>>

\* crossLane(), Math.random() having returned random tenths.
CrossLane(random) ==
  /\ IF gameState /= "playing"
       THEN UNCHANGED <<currentLane, gameState, simStats>>
       ELSE IF random * 10 < crossLaneSurvivalRate
         THEN LET newLane == currentLane + 1
              IN /\ currentLane' = newLane
                 /\ IF newLane = lanes
                      THEN /\ gameState' = "won"
                           /\ simStats' = [games |-> simStats.games + 1,
                                           wins |-> simStats.wins + 1,
                                           maxLane |-> Max(simStats.maxLane, newLane)]
                      ELSE UNCHANGED <<gameState, simStats>>
         ELSE /\ gameState' = "lost"
              /\ simStats' = [games |-> simStats.games + 1,
                              wins |-> simStats.wins,
                              maxLane |-> Max(simStats.maxLane, currentLane)]
              /\ UNCHANGED currentLane
  /\ simCalled' = "crossLane"
  /\ UNCHANGED <<lanes, wsVars, statsVars>>

\* cashOut().
CashOut ==
  /\ IF gameState /= "playing" \/ currentLane = 0
       THEN UNCHANGED <<gameState, simStats>>
       ELSE /\ gameState' = "won"
            /\ simStats' = [games |-> simStats.games + 1,
                            wins |-> simStats.wins + 1,
                            maxLane |-> Max(simStats.maxLane, currentLane)]
  /\ simCalled' = "cashOut"
  /\ UNCHANGED <<lanes, currentLane, wsVars, statsVars>>

\* The lanes select, disabled while a round is playing.
SetLanes(n) ==
  /\ gameState /= "playing"
  /\ lanes' = n
  /\ simCalled' = "setLanes"
  /\ UNCHANGED <<currentLane, gameState, simStats, wsVars, statsVars>>

\* ------------------------------------------------------------ specifications
Sockets == 1..Len(sockets)
Timers == 1..Len(timers)

\* A timer callback that would create a socket needs room for it.
FireRoom(maxChan) ==
  reconnectAttemptsRef + 1 < maxReconnectAttempts => Len(sockets) < maxChan

\* The connection manager under transport events and consumer calls made at
\* any time.
Next ==
  \/ Len(sockets) < MaxChannels /\ consumerConnects < MaxConnectCalls /\ Connect
  \/ Disconnect
  \/ \E c \in Sockets : OnOpen(c)
  \/ \E c \in Sockets : OnError(c)
  \/ \E c \in Sockets : OnClose(c)
  \/ \E t \in Timers : FireRoom(MaxChannels) /\ TimerFire(t)

Spec == Init /\ [][Next]_vars

\* The connection manager used as the mount effect uses it: connect() is
\* called again only after disconnect() (mount, cleanup, mount again).
LifecycleNext ==
  \/ Len(sockets) < MaxChannels /\ consumerConnects < MaxConnectCalls
       /\ wsRef = Null /\ Connect
  \/ Disconnect
  \/ \E c \in Sockets : OnOpen(c)
  \/ \E c \in Sockets : OnError(c)
  \/ \E c \in Sockets : OnClose(c)
  \/ \E t \in Timers : FireRoom(MaxChannels) /\ TimerFire(t)

LifecycleSpec == Init /\ [][LifecycleNext]_vars

\* The connection manager left to itself after mount: transport events and
\* the retry chain, ended at any time by disconnect().
TransportNext ==
  \/ Disconnect
  \/ \E c \in Sockets : OnOpen(c)
  \/ \E c \in Sockets : OnError(c)
  \/ \E c \in Sockets : OnClose(c)
  \/ \E t \in Timers : FireRoom(MaxChannels) /\ TimerFire(t)

TransportSpec == Init /\ [][TransportNext]_vars

\* The useStats hook: the mount-time refetch(), the poll ticks, refetch()
\* calls, every fetch settling either way at any time, and the unmount.
StatsNext ==
  \/ \E i \in 1..Len(requests) : FetchStatsOk(i)
  \/ \E i \in 1..Len(requests) : FetchStatsFail(i)
  \/ \E i \in 1..Len(requests) : FetchLaneStatsOk(i)
  \/ \E i \in 1..Len(requests) : FetchLaneStatsFail(i)
  \/ \E i \in 1..Len(requests) : FetchHistoryOk(i)
  \/ \E i \in 1..Len(requests) : FetchHistoryFail(i)
  \/ Len(requests) + 3 <= StatsMaxRequests
        /\ rounds - ticks - 1 < StatsMaxRefetches /\ Refetch
  \/ Len(requests) + 2 <= StatsMaxRequests /\ ticks < StatsMaxTicks /\ PollTick
  \/ StatsUnmount

StatsSpec == Init /\ [][StatsNext]_vars

\* generateMockCrossing called again and again, over all its random draws.
GeneratorNext ==
  \E lanesCrossed \in LaneDraws, random \in RandomDraws :
     Len(generated) < GenMaxEvents /\ Generate(lanesCrossed, random)

GeneratorSpec == Init /\ [][GeneratorNext]_vars

\* The feed and its two producers (live messages, demo generator) while the
\* connection comes and goes; connect() is called again only after
\* disconnect().
FeedNext ==
  \/ Len(sockets) < FeedMaxChannels /\ wsRef = Null /\ Connect
  \/ Disconnect
  \/ \E c \in Sockets : OnOpen(c)
  \/ \E c \in Sockets : OnClose(c)
  \/ \E t \in Timers : FireRoom(FeedMaxChannels) /\ TimerFire(t)
  \/ \E c \in Sockets : serverSeq < FeedMaxEvents /\ OnCrossing(c)
  \/ \E c \in Sockets, m \in {0, 2} :
        serverSeq + m <= FeedMaxEvents /\ OnHistory(c, m)
  \/ ClearCrossings
  \/ GeneratorTick
  \/ TogglePause

FeedSpec == Init /\ [][FeedNext]_vars

\* The feed buffer over the lifetime of the first connection, with enough
\* live events to overflow the buffer.
BufferNext ==
  \/ Disconnect
  \/ \E c \in Sockets : OnOpen(c)
  \/ \E c \in Sockets : OnClose(c)
  \/ \E c \in Sockets : serverSeq < BufferMaxEvents /\ OnCrossing(c)
  \/ \E c \in Sockets, m \in {0, 2, liveFeedLimit + 1} :
        serverSeq + m <= BufferMaxEvents /\ OnHistory(c, m)
  \/ ClearCrossings
  \/ GeneratorTick
  \/ TogglePause

BufferSpec == Init /\ [][BufferNext]_vars

\* Every kind of inbound message, and sendMessage, while the connection comes
\* and goes; connect() is called again only after disconnect().
MessageNext ==
  \/ Len(sockets) < MsgMaxChannels /\ wsRef = Null /\ Connect
  \/ Disconnect
  \/ \E c \in Sockets : OnOpen(c)
  \/ \E c \in Sockets : OnClose(c)
  \/ \E t \in Timers : FireRoom(MsgMaxChannels) /\ TimerFire(t)
  \/ \E c \in Sockets : serverSeq < MsgMaxEvents /\ OnCrossing(c)
  \/ \E c \in Sockets : Len(received) < MsgMaxEvents /\ OnCrossingNoPayload(c)
  \/ \E c \in Sockets, m \in {0, 1} :
        serverSeq + m <= MsgMaxEvents /\ OnHistory(c, m)
  \/ \E c \in Sockets, type \in DroppedTypes : OnDropped(c, type)
  \/ \E c \in Sockets : Len(sent) < MsgMaxFrames /\ OnPing(c)
  \/ Len(sent) < MsgMaxFrames /\ SendMessage

MessageSpec == Init /\ [][MessageNext]_vars

\* The simulator: the start button is rendered only while no round is
\* playing; crossLane and cashOut are called in any state, so that their
\* own early returns decide.
SimNext ==
  \/ gameState /= "playing" /\ simStats.games < SimMaxGames /\ StartGame
  \/ \E random \in RandomDraws : CrossLane(random)
  \/ CashOut
  \/ \E n \in LaneOptions : SetLanes(n)

SimSpec == Init /\ [][SimNext]_vars

\* ------------------------------------------------------------------- claims
LiveSockets == {c \in Sockets : sockets[c] \in {"CONNECTING", "OPEN"}}
OpenSockets == {c \in Sockets : sockets[c] = "OPEN"}
PendingTimers == {t \in Timers : timers[t].state = "pending"}

IsPrefix(s, t) == Len(s) <= Len(t) /\ \A i \in 1..Len(s) : s[i] = t[i]

\* The step schedules no reconnect timer and creates no socket.
NoRetryStep == Len(timers') = Len(timers) /\ Len(sockets') = Len(sockets)

\* C1: after disconnect() was called while the status was connected, and until
\* the consumer calls connect() again, no step schedules a reconnect timer or
\* creates a socket (the close event of the closed socket included).
C1_NoReconnectAfterDisconnect ==
  [][(disconnectedFrom = "connected" /\ disconnectedFrom' = "connected")
       => NoRetryStep]_vars

\* C2: after disconnect() was called while an attempt was in flight, and until
\* the consumer calls connect() again, the status never becomes connected and
\* no step schedules a reconnect timer or creates a socket.
C2_DisconnectCancelsAttempt ==
  [][(disconnectedFrom = "connecting" /\ disconnectedFrom' = "connecting")
       => (~connected' /\ NoRetryStep)]_vars

\* C3: at most one socket created by the manager is live (connecting or open;
\* its handlers are attached from creation on).
C3_AtMostOneLiveChannel == Cardinality(LiveSockets) <= 1

\* C4: a consumer call of connect() made while the current socket is connecting
\* or open creates no socket and leaves status, attempt counter, current socket
\* and timers unchanged.
C4_ConnectIdempotent ==
  [][(consumerConnects' /= consumerConnects /\ wsRef /= Null /\ wsRef \in LiveSockets)
       => UNCHANGED <<sockets, connected, reconnectAttemptsRef, wsRef, timers>>]_vars

\* The retries scheduled since the attempt counter was last 0 by construction
\* or by onopen, in scheduling order.
RetriesSinceReset == SubSeq(timers, openMark + 1, Len(timers))

\* A retry scheduled by a failure: the socket was not being closed by
\* disconnect() when its close event arrived.
ByFailure(t) == t.closed /= "CLOSING"

\* The delays of the retries that failures scheduled since the last reset.
FailureDelays ==
  LET f == SelectSeq(RetriesSinceReset, ByFailure)
  IN  [i \in 1..Len(f) |-> f[i].delay]

BackoffLadder == <<1000, 2000, 4000, 8000, 16000>>

\* C5: when the first failure finds the attempt counter at 0 (its retry is
\* scheduled with 1000 ms) and no open intervenes, the delays the failures
\* schedule are 1000, 2000, 4000, 8000, 16000 in that order, and a sixth
\* failure schedules nothing.
C5_BackoffLadder ==
  (FailureDelays /= <<>> /\ FailureDelays[1] = BaseDelayMs)
    => IsPrefix(FailureDelays, BackoffLadder)

\* C6: onopen sets the attempt counter to 0, and when the first close event
\* handled after an onopen is that of a socket lost while open, it schedules
\* its retry with a delay of 1000 ms.
C6_OpenResetsBackoff ==
  [][/\ ((\E c \in Sockets : sockets[c] = "CONNECTING" /\ sockets'[c] = "OPEN")
           => reconnectAttemptsRef' = 0)
     /\ ((/\ sinceOpen = "none" /\ sinceOpen' = "some"
           /\ \E c \in Sockets : sockets[c] = "OPEN" /\ sockets'[c] = "CLOSED")
           => /\ Len(timers') = Len(timers) + 1
              /\ timers'[Len(timers')].delay = BaseDelayMs)]_vars

\* C7: while the attempt counter is at the ceiling (no open having reset it),
\* no step schedules a reconnect timer or creates a socket, not even a
\* consumer call of connect(), and the error state is the max-attempts error.
C7_CeilingIsTerminal ==
  [][reconnectAttemptsRef >= maxReconnectAttempts
       => /\ NoRetryStep
          /\ (reconnectAttemptsRef' >= maxReconnectAttempts
                => error' = MaxAttemptsError)]_vars

RECURSIVE CountMock(_)
CountMock(s) ==
  IF s = <<>> THEN 0
  ELSE (IF Head(s).src = "mock" THEN 1 ELSE 0) + CountMock(Tail(s))

\* C8: a step taken while the status is connected adds no synthetic event to
\* the displayed feed.
C8_NoSyntheticWhileConnected ==
  [][(connected /\ connected') => CountMock(feed') <= CountMock(feed)]_vars

\* A live message can be applied (some socket with the handlers is open).
LiveCanInsert == OpenSockets /= {}

\* C9: live messages can be applied only while the status is connected, and
\* never while the generator's timer is armed.
C9_OneProducer ==
  /\ (LiveCanInsert => connected)
  /\ ~(LiveCanInsert /\ GeneratorArmed)

\* C10: once more than liveFeedLimit events were prepended, the crossings
\* buffer is exactly the liveFeedLimit most recently received of them, newest
\* first: each was inserted at the front and only the oldest were evicted.
C10_BufferHoldsMostRecent ==
  Len(received) > liveFeedLimit
    => crossings = SubSeq(received, 1, liveFeedLimit)

\* C10 witness: liveFeedLimit + 1 crossing messages arrived in a row; the
\* buffer runs from the newest down to the second oldest.
C10_Witness ==
  /\ Len(received) = liveFeedLimit + 1
  /\ \A i \in 1..Len(received) : received[i].via = "crossing"
  /\ Len(crossings) = liveFeedLimit
  /\ crossings[1].id = serverSeq
  /\ crossings[liveFeedLimit].id = serverSeq - liveFeedLimit + 1

\* C11: right after a history message with a payload was handled, the
\* crossings buffer is the first min(M, liveFeedLimit) elements of that payload
\* in the payload's order, so every element it holds came with this message.
C11_HistoryReplacesBuffer ==
  (handled.type = "history" /\ handled.hasPayload)
    => /\ Len(crossings) = Min(Len(handled.payload), liveFeedLimit)
       /\ \A i \in 1..Len(crossings) : crossings[i] = handled.payload[i]

\* C11 witness: a history message of liveFeedLimit + 1 events arrived after an
\* earlier live event, and the buffer holds its first liveFeedLimit events.
C11_Witness ==
  /\ handled.type = "history"
  /\ Len(handled.payload) = liveFeedLimit + 1
  /\ handled.payload[liveFeedLimit + 1].id > 1
  /\ Len(crossings) = liveFeedLimit
  /\ crossings[1].id = serverSeq

\* The events received since the buffer was last replaced are crossing
\* messages' events (the newest first) followed by a history payload.
HistoryThenCrossings ==
  /\ received /= <<>>
  /\ received[1].via = "crossing"
  /\ received[Len(received)].via = "history"
  /\ \A i \in 1..(Len(received) - 1) :
        /\ received[i].via = "history" => received[i + 1].via = "history"
        /\ received[i].id > received[i + 1].id

\* C12: after a history message H and then crossing messages c1..ck, the
\* crossings buffer is the first liveFeedLimit elements of ck, ..., c1 followed
\* by H, and right after each of these messages the displayed feed is that
\* buffer too.
C12_ArrivalOrder ==
  HistoryThenCrossings
    => /\ crossings = Slice(received, liveFeedLimit)
       /\ (handled.type = "crossing" => feed = crossings)

\* C12 witness: a history of two events and then crossing messages that
\* overflow the buffer: the oldest history event was evicted.
C12_Witness ==
  /\ HistoryThenCrossings
  /\ handled.type = "crossing"
  /\ Len(received) = liveFeedLimit + 1
  /\ received[liveFeedLimit].via = "history"
  /\ crossings[liveFeedLimit] = received[liveFeedLimit]
  /\ crossings[1].id = serverSeq

\* C13: a step that handles a ping (delivered by an open socket) sends exactly
\* one frame, a pong, on the socket that delivered the ping.
C13_PingPong ==
  [][handled'.type = "ping"
       => sent' = Append(sent, Frame(handled'.socket, "pong"))]_vars

\* C14: a sendMessage call made while the status is not connected sends no
\* frame and changes nothing of the manager's state.
C14_SendOnlyWhenConnected ==
  [][(handled'.type = "send" /\ ~connected)
       => UNCHANGED <<sent, crossings, connVars>>]_vars

\* Every element of the buffer is a CrossingEvent the server sent.
IsEventSeq(s) == \A i \in 1..Len(s) : s[i].src = "live"

\* C19: a step that handles an unparseable message, a stats message or a
\* message of unknown type changes neither the crossings buffer, the status,
\* the error field nor the attempt counter and leaves the socket open; and
\* after any inbound message the crossings buffer is a sequence of at most
\* liveFeedLimit events.
C19_MalformedDropped ==
  [][/\ handled'.type \in {"unparseable", "stats", "unknown"}
          => /\ UNCHANGED <<crossings, connected, error, reconnectAttemptsRef>>
             /\ sockets'[handled'.socket] = "OPEN"
     /\ handled'.type \in InboundTypes
          => /\ Len(crossings') <= liveFeedLimit
             /\ IsEventSeq(crossings')]_vars

\* The step runs a handler of some socket: onopen, onmessage, onerror (seen
\* by the error it sets) or onclose.
ChannelCallbackStep ==
  \/ \E c \in Sockets : sockets[c] = "CONNECTING" /\ sockets'[c] = "OPEN"
  \/ \E c \in Sockets : sockets[c] /= "CLOSED" /\ sockets'[c] = "CLOSED"
  \/ error' = ConnectionError /\ error /= ConnectionError
  \/ handled'.type \in InboundTypes

\* C18: once disconnect() was called, and until the consumer calls connect()
\* again, a step that runs a socket's handler changes neither the status, the
\* error field, the attempt counter nor the crossings buffer.
C18_CallbacksInertAfterTeardown ==
  [][(disconnectedFrom /= "none" /\ disconnectedFrom' = disconnectedFrom
        /\ ChannelCallbackStep)
       => UNCHANGED <<connected, error, reconnectAttemptsRef, crossings>>]_vars

\* C20: a step in which onerror sets the error field changes neither the
\* status nor the attempt counter, schedules no timer and touches no socket;
\* a timer is scheduled only by a step that handles a close event, and the
\* status leaves connected only by such a step or by disconnect().
C20_ErrorIsNotATransition ==
  [][/\ (error' = ConnectionError /\ error /= ConnectionError)
          => UNCHANGED <<connected, reconnectAttemptsRef, timers, sockets, wsRef>>
     /\ Len(timers') > Len(timers)
          => \E c \in Sockets : sockets[c] /= "CLOSED" /\ sockets'[c] = "CLOSED"
     /\ (connected /\ ~connected')
          => \/ \E c \in Sockets : sockets[c] /= "CLOSED" /\ sockets'[c] = "CLOSED"
             \/ wsRef' = Null]_vars

\* C20 witness: the open socket reported an error and the status is still
\* connected, with no retry scheduled: the close event has not arrived yet.
C20_Witness ==
  /\ error = ConnectionError
  /\ connected
  /\ wsRef /= Null
  /\ sockets[wsRef] = "OPEN"
  /\ PendingTimers = {}

Requests == 1..Len(requests)

\* Request i has just settled as `outcome` in this step.
SettlesAs(i, endpoint, outcome) ==
  /\ requests[i].endpoint = endpoint
  /\ requests[i].state = "pending"
  /\ requests'[i].state = outcome

\* The two fetches that settled last are the overall-stats fetch and the
\* lane-stats fetch of one round, the former failed and the latter succeeded,
\* request a being the overall-stats one.
SplitRound(a, b) ==
  /\ a /= Null /\ b /= Null
  /\ {a, b} = {lastSettled[1], lastSettled[2]}
  /\ requests[a].round = requests[b].round
  /\ requests[a].endpoint = "stats" /\ requests[a].state = "failed"
  /\ requests[b].endpoint = "laneStats" /\ requests[b].state = "ok"

\* stats is a snapshot that a successful overall-stats fetch returned, or
\* still null when none has succeeded.
LastGoodStats ==
  LET good == {i \in Requests : requests[i].endpoint = "stats"
                                  /\ requests[i].state = "ok"}
  IN  IF stats = Null THEN good = {} ELSE stats \in good

\* C15: when the overall-stats fetch of a round has failed and its lane-stats
\* fetch has succeeded, whichever settled first, laneStats is the lane
\* response of that round, stats is still a snapshot a successful fetch
\* returned (or still null if none ever succeeded), untouched by the failure,
\* and the error is set; and a step sets the error only when it fails an
\* overall-stats fetch.
C15_SplitRound ==
  [][/\ \A a, b \in Requests :
          SplitRound(a, b)' =>
            /\ laneStats' = b
            /\ LastGoodStats'
            /\ statsError' /= NoError
            /\ (lastSettled'[2] = a => stats' = stats)
     /\ (statsError' /= NoError /\ statsError' /= statsError)
          => \E i \in Requests : SettlesAs(i, "stats", "failed")]_vars

\* C15 witness: a round after the first ended with its stats fetch failed
\* after its lane fetch succeeded, an earlier snapshot being held.
C15_Witness ==
  \E a, b \in Requests :
    /\ SplitRound(a, b)
    /\ lastSettled = <<b, a>>
    /\ stats /= Null
    /\ laneStats = b
    /\ statsError = FetchError

\* C16: a step that fails a lane-stats fetch leaves stats, the error and
\* laneStats unchanged; a step that fails a history fetch leaves stats, the
\* error and history unchanged.
C16_SecondaryFailuresSilent ==
  [][/\ (\E i \in Requests : SettlesAs(i, "laneStats", "failed"))
          => UNCHANGED <<stats, statsError, laneStats>>
     /\ (\E i \in Requests : SettlesAs(i, "history", "failed"))
          => UNCHANGED <<stats, statsError, history>>]_vars

\* C16 witness: a lane-stats fetch and a history fetch have failed after
\* values were held, and the values are still there with no error.
C16_Witness ==
  /\ \E i \in Requests : requests[i].endpoint = "laneStats"
                            /\ requests[i].state = "failed"
                            /\ laneStats /= Null /\ laneStats < i
  /\ \E i \in Requests : requests[i].endpoint = "history"
                            /\ requests[i].state = "failed"
                            /\ history /= Null /\ history < i
  /\ stats /= Null
  /\ statsError = NoError

\* C17: every poll tick issues one overall-stats fetch and one lane-stats
\* fetch; the interval is active as long as the view is mounted; and once the
\* view is unmounted no step issues a fetch.
C17_PollingLifetime ==
  [][/\ ticks' /= ticks
          => /\ Len(requests') = Len(requests) + 2
             /\ requests'[Len(requests) + 1].endpoint = "stats"
             /\ requests'[Len(requests) + 2].endpoint = "laneStats"
             /\ IsPrefix(requests, requests')
     /\ (mounted' => interval' = "active")
     /\ (~mounted' => /\ interval' = "cleared"
                      /\ Len(requests') = Len(requests))]_vars

\* C17 witness: the view was unmounted after a poll tick, with fetches of
\* that tick still in flight.
C17_Witness ==
  /\ ~mounted
  /\ interval = "cleared"
  /\ ticks >= 1
  /\ \E i \in Requests : ~requests[i].awaited /\ requests[i].state = "pending"

\* C21: every event generateMockCrossing returned satisfies the CrossingEvent
\* invariant: crossed implies lanesCrossed = maxLanes and multiplier > 0; hit
\* implies lanesCrossed < maxLanes and multiplier = 0.
C21_GeneratorInvariant ==
  \A i \in 1..Len(generated) :
    LET e == generated[i]
    IN  /\ e.outcome = "crossed" => (e.lanesCrossed = maxLanes /\ e.multiplier > 0)
        /\ e.outcome = "hit" => (e.lanesCrossed < maxLanes /\ e.multiplier = 0)

\* A call of generateMockCrossing that returns a hit with lanesCrossed = 0
\* and a non-zero multiplier.
EmitHitWithMultiplier ==
  \E lanesCrossed \in LaneDraws, random \in RandomDraws :
    /\ Generate(lanesCrossed, random)
    /\ generated'[Len(generated')].outcome = "hit"
    /\ generated'[Len(generated')].lanesCrossed = 0
    /\ generated'[Len(generated')].multiplier /= 0

\* C29 as stated: the generator can make such a call.
C29_CanEmitHitWithMultiplier == ENABLED EmitHitWithMultiplier

\* C29 (amended): every event generateMockCrossing returned with outcome hit,
\* or with lanesCrossed = 0, has multiplier 0.
C29_HitHasNoMultiplier ==
  \A i \in 1..Len(generated) :
    (generated[i].outcome = "hit" \/ generated[i].lanesCrossed = 0)
      => generated[i].multiplier = 0

\* C29 witness: the generator returned a hit with lanesCrossed = 0 (its
\* multiplier is 0) and a hit further on, whose table entry is not 0.
C29_Witness ==
  /\ Len(generated) = 2
  /\ generated[1].outcome = "hit" /\ generated[1].lanesCrossed = 0
  /\ generated[1].multiplier = 0
  /\ generated[2].outcome = "hit" /\ generated[2].lanesCrossed = 3
  /\ generated[2].multiplier = 0

\* The step is a tick of the generator's interval: the displayed feed changes
\* and neither a message nor a consumer call was handled.
GeneratorTickStep == feed' /= feed /\ handled'.type = "none"

\* C22: a step that handles clearCrossings() leaves the crossings buffer and
\* the displayed feed empty, and the displayed feed leaves the empty state
\* only by a live message or a generator tick.
C22_ClearEmptiesFeed ==
  [][/\ handled'.type = "clear" => (crossings' = <<>> /\ feed' = <<>>)
     /\ (feed = <<>> /\ feed' /= <<>>)
          => (handled'.type \in {"crossing", "history"} \/ GeneratorTickStep)]_vars

\* C23: no step taken while the feed is paused is a tick of the generator,
\* whatever the status; and while the feed is neither paused nor connected
\* the generator's interval is armed.
C23_PauseStopsGenerator ==
  [][/\ isPaused => ~GeneratorTickStep
     /\ (~isPaused /\ ~connected) => ENABLED GeneratorTick]_vars

\* C23 witness: the generator ticked, then the feed was paused while not
\* connected: the tick's event is still the last one inserted.
C23_Witness ==
  /\ isPaused
  /\ ~connected
  /\ crossings = <<>>
  /\ Len(feed) = MockSeedCount + 1

\* C24: a disconnect() call (the first since the consumer's last connect())
\* made while some reconnect timer is pending leaves no reconnect timer
\* pending, so none fires afterwards.
C24_DisconnectCancelsTimers ==
  [][(disconnectedFrom = "none" /\ disconnectedFrom' /= "none"
        /\ PendingTimers /= {})
       => \A t \in Timers : timers'[t].state /= "pending"]_vars

\* C26: the attempt counter equals the number of retries scheduled since the
\* counter was last reset by onopen (or since construction): a close event
\* that schedules a retry has already counted it.
C26_CounterCountsScheduled ==
  reconnectAttemptsRef = Len(RetriesSinceReset)

\* C27: a pong sent in reply to a ping goes out on the socket that delivered
\* the ping.
C27_PongOnSameChannel ==
  [][(handled'.type = "ping" /\ Len(sent') > Len(sent))
       => sent'[Len(sent')].socket = handled'.socket]_vars

\* The latest fetch of the endpoint has failed.
LastFetchFailed(endpoint) ==
  \E i \in Requests :
    /\ requests[i].endpoint = endpoint
    /\ requests[i].state = "failed"
    /\ \A j \in Requests : requests[j].endpoint = endpoint => j <= i

\* C25: a poll tick taken when the latest fetch of an endpoint has failed
\* issues a new fetch of that endpoint, for each of the three endpoints.
C25_FailedFetchRetriedOnTick ==
  [][ticks' /= ticks
       => \A endpoint \in {"stats", "laneStats", "history"} :
            LastFetchFailed(endpoint)
              => \E i \in (Len(requests) + 1)..Len(requests') :
                   /\ requests'[i].endpoint = endpoint
                   /\ requests'[i].state = "pending"]_vars

\* C28: the crossings buffer and the displayed feed hold at most
\* liveFeedLimit events.
C28_BuffersBounded ==
  /\ Len(crossings) <= liveFeedLimit
  /\ Len(feed) <= liveFeedLimit

\* C28 witness: more live events arrived than the buffers hold, and both
\* buffers are full.
C28_Witness ==
  /\ Len(received) > liveFeedLimit
  /\ Len(crossings) = liveFeedLimit
  /\ Len(feed) = liveFeedLimit

\* The requests of the refetch() round that request i belongs to.
RoundOf(i) == {j \in Requests : requests[j].round = requests[i].round}

\* No fetch issued by a refetch() is pending.
NoRefetchPending ==
  \A i \in Requests : requests[i].awaited => requests[i].state /= "pending"

\* C30: the step that settles the last of the three fetches of a refetch()
\* sets loading to false, whichever of them failed; whenever no fetch of any
\* refetch() is pending loading is false; and a fetch that succeeds has its
\* result applied whatever became of the others.
C30_LoadingEnds ==
  [][/\ \A i \in Requests :
          (/\ requests[i].awaited
           /\ requests[i].state = "pending"
           /\ \A j \in RoundOf(i) : requests'[j].state /= "pending")
            => ~loading'
     /\ NoRefetchPending' => ~loading'
     /\ \A i \in Requests :
          /\ SettlesAs(i, "stats", "ok") => stats' = i
          /\ SettlesAs(i, "laneStats", "ok") => laneStats' = i
          /\ SettlesAs(i, "history", "ok") => history' = i]_vars

\* C30 witness: of the three fetches of the mount-time refetch() the
\* overall-stats one failed first and the other two then succeeded: their
\* results are held and loading is false.
C30_Witness ==
  /\ requests[1].state = "failed"
  /\ requests[2].state = "ok" /\ laneStats = 2
  /\ requests[3].state = "ok" /\ history = 3
  /\ lastSettled[1] /= 1 /\ lastSettled[2] /= 1
  /\ ~loading

\* Some fetch settles in this step.
SettleStep ==
  \E i \in Requests : requests[i].state = "pending" /\ requests'[i].state /= "pending"

\* C31: once the view is unmounted, a step in which a fetch settles changes
\* none of stats, laneStats, history, loading and the error.
C31_CompletionsInertAfterTeardown ==
  [][(~mounted /\ SettleStep)
       => UNCHANGED <<stats, laneStats, history, loading, statsError>>]_vars

\* The step is a reconnect timer's callback.
TimerFireStep ==
  \E t \in Timers : timers[t].state = "pending" /\ timers'[t].state = "fired"

\* C32: every step in which a reconnect timer fires creates a socket.
C32_FiredTimerConnects ==
  [][TimerFireStep => Len(sockets') = Len(sockets) + 1]_vars

\* The overall-stats fetches that have settled.
SettledStats ==
  {i \in Requests : requests[i].endpoint = "stats" /\ requests[i].state /= "pending"}

\* C33: when two or more overall-stats fetches have settled and none is
\* pending, stats and the error reflect the one issued last: if it succeeded
\* stats is its snapshot and the error is null, if it failed the error is set.
C33_LaterRequestWins ==
  LET pending == {i \in Requests : requests[i].endpoint = "stats"
                                     /\ requests[i].state = "pending"}
  IN  (Cardinality(SettledStats) >= 2 /\ pending = {})
        => \A m \in SettledStats :
             (\A i \in SettledStats : i <= m)
               => IF requests[m].state = "ok"
                  THEN stats = m /\ statsError = NoError
                  ELSE statsError = FetchError

\* useStats: derivedStats, the `stats` the hook returns (the two derived
\* rates are left out).
derivedStats == IF stats /= Null THEN stats ELSE Null

\* HomePage: displayStats = stats || mockStats.
MockStats == "mockStats"
displayStats == IF derivedStats /= Null THEN "real" ELSE MockStats

\* C34: once stats holds a snapshot it never becomes null again, and the
\* dashboard never goes back from real statistics to the mock statistics.
C34_SnapshotNeverLost ==
  [][/\ stats /= Null => stats' /= Null
     /\ displayStats /= MockStats => displayStats' /= MockStats]_vars

\* C34 witness: a snapshot is held although a later overall-stats fetch has
\* failed and the error is set.
C34_Witness ==
  /\ stats /= Null
  /\ displayStats = "real"
  /\ statsError = FetchError
  /\ \E i \in Requests : i > stats /\ requests[i].endpoint = "stats"
                                     /\ requests[i].state = "failed"

\* A round ends: it was playing and is now won or lost.
RoundEnds == gameState = "playing" /\ gameState' \in {"won", "lost"}

\* C35: in the simulator, a crossLane or cashOut call made while no round is
\* playing changes nothing, and neither does a cashOut call at lane 0; every
\* round that ends (win, cash-out or hit) increments stats.games by exactly 1
\* and games changes in no other step; stats.wins <= stats.games throughout.
C35_RoundAccounting ==
  [][/\ (simCalled' \in {"crossLane", "cashOut"} /\ gameState /= "playing")
          => UNCHANGED simState
     /\ (simCalled' = "cashOut" /\ currentLane = 0) => UNCHANGED simState
     /\ RoundEnds => simStats'.games = simStats.games + 1
     /\ simStats'.games /= simStats.games => RoundEnds
     /\ simStats.wins <= simStats.games
     /\ simStats'.wins <= simStats'.games]_vars

C35_Witness ==
  /\ simCalled = "cashOut" /\ gameState = "lost"
  /\ simStats.games = 3 /\ simStats.wins = 2 /\ currentLane > 0

\* C36: in the simulator 0 <= currentLane <= lanes in every reachable state,
\* also after the lane count was changed between rounds, and a crossLane
\* call wins the round exactly when it makes currentLane equal to lanes.
C36_LaneWithinRoad ==
  /\ [](0 <= currentLane /\ currentLane <= lanes)
  /\ [][(simCalled' = "crossLane" /\ RoundEnds /\ gameState' = "won")
          <=> (currentLane' /= currentLane /\ currentLane' = lanes')]_vars

\* C37: at every position 0..lanes-1 of a round being played, the survival
\* probability crossLane draws against equals the per-lane survival
\* probability laneData uses for the displayed table at that position.
C37_SameSurvivalRate ==
  (gameState = "playing" /\ currentLane \in 0..(lanes - 1))
    => crossLaneSurvivalRate = laneData[currentLane + 1].laneSurvival

====
